---- MODULE Spec2Model ----
\* Model of DatalatheResultSet (src/results/result-set.ts): a scrollable cursor
\* over a grid of nullable text cells with a column schema.
EXTENDS Integers, Sequences, FiniteSets, TLC

\* ---------------------------------------------------------------------------
\* Bounds
\* ---------------------------------------------------------------------------
\* largest number of rows of a grid
MaxRows == 2
\* how many steps past after-last the model lets next() push the position
MaxOverrun == 1
\* absolute(row) and relative(rows) are called with arguments in -MaxArg..MaxArg
MaxArg == 3
\* accessors are called with column indexes in 0..MaxColumnArg
MaxColumnArg == 3
\* largest number of bytes of a response body
MaxBody == 4
\* largest number of sources handed to createChips
MaxSources == 3

\* ---------------------------------------------------------------------------
\* JavaScript values.  Text is a sequence of one-character strings, so that
\* toLowerCase, parseInt and parseFloat are computed character by character.
\* ---------------------------------------------------------------------------
Null == [k |-> "null"]
Undefined == [k |-> "undefined"]
NaN == [k |-> "NaN"]
Str(s) == [k |-> "str", v |-> s]
Num(n) == [k |-> "num", v |-> n]
Bool(b) == [k |-> "bool", v |-> b]
Throw(m, key) == [k |-> "throw", msg |-> m, key |-> key]
IsThrow(v) == v.k = "throw"
\* a property read or method call on undefined
TypeError == Throw("TypeError", Undefined)

\* ---------------------------------------------------------------------------
\* Response entries the cursor is constructed over
\* ---------------------------------------------------------------------------
\* schemas: none, distinct names, names differing only in case, and the same
\* name twice (with the Boolean tag on the first column)
SchemaSet ==
  { << >>,
    << [name |-> <<"i","d">>, data_type |-> "Int32"],
       [name |-> <<"o","k">>, data_type |-> "Boolean"] >>,
    << [name |-> <<"I","d">>, data_type |-> "Utf8"],
       [name |-> <<"i","D">>, data_type |-> "Float64"] >>,
    << [name |-> <<"o","k">>, data_type |-> "Boolean"],
       [name |-> <<"o","k">>, data_type |-> "Int64"] >> }

\* rows: a null cell beside a text cell, and a row that holds fewer cells than
\* the two-column schemas have columns
RowSet ==
  { << Null, Str(<<"T","r","u","e">>) >>,
    << Str(<<"2",".","5">>) >> }

RECURSIVE SeqsUpTo(_, _)
SeqsUpTo(S, n) ==
  IF n = 0 THEN { << >> }
  ELSE LET shorter == SeqsUpTo(S, n - 1)
       IN  shorter \cup { Append(s, x) : s \in { t \in shorter : Len(t) = n - 1 }, x \in S }

GridSet == SeqsUpTo(RowSet, MaxRows)

\* a rows field or schema field of an entry that is present
Rows(grid) == [k |-> "rows", v |-> grid]
Fields(columns) == [k |-> "fields", v |-> columns]

\* entries with the primary rows field and the schema present
EntrySet ==
  { [result |-> Rows(grid), data |-> Undefined, schema |-> Fields(columns)] :
      grid \in GridSet, columns \in SchemaSet }

\* ---------------------------------------------------------------------------
\* State
\* ---------------------------------------------------------------------------
VARIABLES entry, data, schema, currentRow, _wasNull, iterOpen, call, nextRun, iterRun,
          other, callOn, decode, request, chips

vars == << entry, data, schema, currentRow, _wasNull, iterOpen, call, nextRun, iterRun,
           other, callOn, decode, request, chips >>

\* the variables of the cursors
cursorVars ==
  << entry, data, schema, currentRow, _wasNull, iterOpen, call, nextRun, iterRun,
     other, callOn >>

\* the mutable fields of one cursor instance
This == [currentRow |-> currentRow, _wasNull |-> _wasNull]

\* a second cursor constructed over the same entry: the instance fields that
\* its methods read and assign are its own
OtherThis_shared == This

OtherThis == [currentRow |-> other.currentRow, _wasNull |-> other._wasNull]

\* result of a method: the instance's fields afterwards and the returned value
Result(this, ret) == [this |-> this, ret |-> ret]

\* ---------------------------------------------------------------------------
\* Construction
\* ---------------------------------------------------------------------------
\* a ?? b takes b when a is null or undefined
Nullish(value) == value.k \in {"null", "undefined"}

\* the constructor falling back to the second rows field also when the primary
\* field holds no rows
constructor_when_empty(result) ==
  [data |-> IF ~Nullish(result.result) /\ result.result.v # << >> THEN result.result.v
            ELSE IF ~Nullish(result.data) THEN result.data.v
            ELSE << >>,
   schema |-> IF ~Nullish(result.schema) THEN result.schema.v ELSE << >>]

\* the fields data and schema the constructor assigns
constructor(result) ==
  [data |-> IF ~Nullish(result.result) THEN result.result.v
            ELSE IF ~Nullish(result.data) THEN result.data.v
            ELSE << >>,
   schema |-> IF ~Nullish(result.schema) THEN result.schema.v ELSE << >>]

\* ---------------------------------------------------------------------------
\* Cursor navigation
\* ---------------------------------------------------------------------------
\* next() comparing with <= : the after-last position counts as a row
next_inclusive(this) ==
  LET moved == [this EXCEPT !.currentRow = this.currentRow + 1]
  IN  Result(moved, Bool(moved.currentRow <= Len(data)))

next(this) ==
  LET moved == [this EXCEPT !.currentRow = this.currentRow + 1]
  IN  Result(moved, Bool(moved.currentRow < Len(data)))

\* previous() guarding with < 0 : steps from the first row to before-first
previous_strict(this) ==
  IF this.currentRow < 0
  THEN Result(this, Bool(FALSE))
  ELSE Result([this EXCEPT !.currentRow = this.currentRow - 1], Bool(TRUE))

previous(this) ==
  IF this.currentRow <= 0
  THEN Result(this, Bool(FALSE))
  ELSE Result([this EXCEPT !.currentRow = this.currentRow - 1], Bool(TRUE))

\* first() moving before it looks at the grid's length
first_unchecked(this) ==
  Result([this EXCEPT !.currentRow = 0], Bool(Len(data) > 0))

first(this) ==
  IF Len(data) = 0
  THEN Result(this, Bool(FALSE))
  ELSE Result([this EXCEPT !.currentRow = 0], Bool(TRUE))

\* last() landing one past the last row
last_past(this) ==
  IF Len(data) = 0
  THEN Result(this, Bool(FALSE))
  ELSE Result([this EXCEPT !.currentRow = Len(data)], Bool(TRUE))

last(this) ==
  IF Len(data) = 0
  THEN Result(this, Bool(FALSE))
  ELSE Result([this EXCEPT !.currentRow = Len(data) - 1], Bool(TRUE))

beforeFirst(this) ==
  Result([this EXCEPT !.currentRow = -1], Undefined)

afterLast(this) ==
  Result([this EXCEPT !.currentRow = Len(data)], Undefined)

\* absolute() resolving a negative row without the + 1
absolute_shifted(this, row) ==
  LET resolved == IF row < 0 THEN Len(data) + row ELSE row
  IN  IF resolved < 1 \/ resolved > Len(data)
      THEN Result([this EXCEPT !.currentRow = Len(data)], Bool(FALSE))
      ELSE Result([this EXCEPT !.currentRow = resolved - 1], Bool(TRUE))

absolute(this, row) ==
  LET resolved == IF row < 0 THEN Len(data) + row + 1 ELSE row
  IN  IF resolved < 1 \/ resolved > Len(data)
      THEN Result([this EXCEPT !.currentRow = Len(data)], Bool(FALSE))
      ELSE Result([this EXCEPT !.currentRow = resolved - 1], Bool(TRUE))

\* relative() stepping against the sign of its argument
relative_backwards(this, rows) ==
  absolute(this, this.currentRow + 1 - rows)

\* relative() taking the position itself for the 1-based row number
relative_zero_based(this, rows) ==
  absolute(this, this.currentRow + rows)

relative(this, rows) ==
  absolute(this, this.currentRow + 1 + rows)

\* ---------------------------------------------------------------------------
\* Position checks
\* ---------------------------------------------------------------------------
isBeforeFirst(this) == Len(data) > 0 /\ this.currentRow = -1

\* isAfterLast() without the test for an empty grid
isAfterLast_raw(this) == this.currentRow >= Len(data)

isAfterLast(this) == Len(data) > 0 /\ this.currentRow >= Len(data)

isFirst(this) == Len(data) > 0 /\ this.currentRow = 0

isLast(this) == Len(data) > 0 /\ this.currentRow = Len(data) - 1

getRow(this) ==
  IF this.currentRow < 0 \/ this.currentRow >= Len(data)
  THEN 0
  ELSE this.currentRow + 1

\* ---------------------------------------------------------------------------
\* String.prototype.toLowerCase, parseInt(text, 10), parseFloat(text)
\* ---------------------------------------------------------------------------
Upper == <<"A","B","C","D","E","F","G","H","I","J","K","L","M",
           "N","O","P","Q","R","S","T","U","V","W","X","Y","Z">>
Lower == <<"a","b","c","d","e","f","g","h","i","j","k","l","m",
           "n","o","p","q","r","s","t","u","v","w","x","y","z">>

LowerChar(c) ==
  IF \E i \in 1..26 : Upper[i] = c
  THEN Lower[CHOOSE i \in 1..26 : Upper[i] = c]
  ELSE c

toLowerCase(s) == [i \in 1..Len(s) |-> LowerChar(s[i])]

Digits == <<"0","1","2","3","4","5","6","7","8","9">>
IsDigit(c) == \E i \in 1..10 : Digits[i] = c
DigitVal(c) == (CHOOSE i \in 1..10 : Digits[i] = c) - 1
WhiteSpace == {" ", "\t", "\n", "\r"}

RECURSIVE SkipWhite(_, _)
SkipWhite(s, i) ==
  IF i <= Len(s) /\ s[i] \in WhiteSpace THEN SkipWhite(s, i + 1) ELSE i

\* first index from i on that does not hold a digit
RECURSIVE DigitsEnd(_, _)
DigitsEnd(s, i) ==
  IF i <= Len(s) /\ IsDigit(s[i]) THEN DigitsEnd(s, i + 1) ELSE i

\* value of the digits s[i..j-1], continuing the value acc
RECURSIVE DigitsValue(_, _, _, _)
DigitsValue(s, i, j, acc) ==
  IF i >= j THEN acc ELSE DigitsValue(s, i + 1, j, 10 * acc + DigitVal(s[i]))

HasSign(s, i) == i <= Len(s) /\ s[i] \in {"+", "-"}
IsNegative(s, i) == i <= Len(s) /\ s[i] = "-"

parseInt(s) ==
  LET i == SkipWhite(s, 1)
      j == IF HasSign(s, i) THEN i + 1 ELSE i
      e == DigitsEnd(s, j)
      n == DigitsValue(s, j, e, 0)
  IN  IF e = j THEN NaN
      ELSE Num(IF IsNegative(s, i) THEN -n ELSE n)

RECURSIVE Pow10(_)
Pow10(n) == IF n <= 0 THEN 1 ELSE 10 * Pow10(n - 1)

\* the number m * 10^e: an integer is Num(n), any other number keeps its
\* mantissa (not divisible by 10) and negative exponent
RECURSIVE Decimal(_, _)
Decimal(m, e) ==
  IF m = 0 THEN Num(0)
  ELSE IF e >= 0 THEN Num(m * Pow10(e))
  ELSE IF m % 10 = 0 THEN Decimal(m \div 10, e + 1)
  ELSE [k |-> "num", v |-> m, e |-> e]

InfinityText == <<"I","n","f","i","n","i","t","y">>

StartsWith(s, i, t) ==
  /\ i + Len(t) - 1 <= Len(s)
  /\ \A n \in 1..Len(t) : s[i + n - 1] = t[n]

parseFloat(s) ==
  LET i == SkipWhite(s, 1)
      neg == IsNegative(s, i)
      j == IF HasSign(s, i) THEN i + 1 ELSE i
      intEnd == DigitsEnd(s, j)
      hasDot == intEnd <= Len(s) /\ s[intEnd] = "."
      fracEnd == IF hasDot THEN DigitsEnd(s, intEnd + 1) ELSE intEnd
      nFrac == IF hasDot THEN fracEnd - intEnd - 1 ELSE 0
      mant == DigitsValue(s, intEnd + 1, fracEnd, DigitsValue(s, j, intEnd, 0))
      hasE == fracEnd <= Len(s) /\ s[fracEnd] \in {"e", "E"}
      expAt == IF HasSign(s, fracEnd + 1) THEN fracEnd + 2 ELSE fracEnd + 1
      expEnd == DigitsEnd(s, expAt)
      hasExp == hasE /\ expEnd > expAt
      expAbs == DigitsValue(s, expAt, expEnd, 0)
      exp == IF ~hasExp THEN 0
             ELSE IF IsNegative(s, fracEnd + 1) THEN -expAbs ELSE expAbs
  IN  IF StartsWith(s, j, InfinityText) THEN [k |-> "Infinity", neg |-> neg]
      ELSE IF (intEnd - j) + nFrac = 0 THEN NaN
      ELSE Decimal(IF neg THEN -mant ELSE mant, exp - nFrac)

\* ---------------------------------------------------------------------------
\* Column lookup
\* ---------------------------------------------------------------------------
\* findColumn() answering with the last matching column
findColumn_last(this, columnLabel) ==
  LET matches == { i \in 1..Len(schema) :
                     toLowerCase(schema[i].name) = toLowerCase(columnLabel) }
  IN  IF matches = {}
      THEN Throw("Column not found", Str(columnLabel))
      ELSE Num(CHOOSE i \in matches : \A j \in matches : i >= j)

findColumn(this, columnLabel) ==
  LET matches == { i \in 1..Len(schema) :
                     toLowerCase(schema[i].name) = toLowerCase(columnLabel) }
  IN  IF matches = {}
      THEN Throw("Column not found", Str(columnLabel))
      ELSE Num(CHOOSE i \in matches : \A j \in matches : i <= j)

\* resolveColumn() handing on findIndex's 0-based answer
resolveColumn_zero_based(this, column) ==
  IF column.k # "str" THEN column
  ELSE IF IsThrow(findColumn(this, column.v)) THEN findColumn(this, column.v)
  ELSE Num(findColumn(this, column.v).v - 1)

resolveColumn(this, column) ==
  IF column.k = "str" THEN findColumn(this, column.v) ELSE column

\* getValue() checking only for before-first: past the last row the row is
\* undefined and indexing it is a TypeError
getValue_unchecked_end(this, columnIndex) ==
  IF this.currentRow < 0
  THEN Throw("No current row", Undefined)
  ELSE IF this.currentRow >= Len(data)
  THEN TypeError
  ELSE IF columnIndex < 1 \/ columnIndex > Len(schema)
  THEN Throw("Invalid column index", Num(columnIndex))
  ELSE LET row == data[this.currentRow + 1]
       IN  IF columnIndex <= Len(row) THEN row[columnIndex] ELSE Undefined

\* getValue() accepting index 0: the cell at index -1 is undefined
getValue_zero_index(this, columnIndex) ==
  IF this.currentRow < 0 \/ this.currentRow >= Len(data)
  THEN Throw("No current row", Undefined)
  ELSE IF columnIndex < 0 \/ columnIndex > Len(schema)
  THEN Throw("Invalid column index", Num(columnIndex))
  ELSE LET row == data[this.currentRow + 1]
       IN  IF columnIndex >= 1 /\ columnIndex <= Len(row)
           THEN row[columnIndex]
           ELSE Undefined

getValue(this, columnIndex) ==
  IF this.currentRow < 0 \/ this.currentRow >= Len(data)
  THEN Throw("No current row", Undefined)
  ELSE IF columnIndex < 1 \/ columnIndex > Len(schema)
  THEN Throw("Invalid column index", Num(columnIndex))
  ELSE LET row == data[this.currentRow + 1]
       IN  IF columnIndex <= Len(row) THEN row[columnIndex] ELSE Undefined

\* ---------------------------------------------------------------------------
\* Value accessors (1-based column index, or column name)
\* ---------------------------------------------------------------------------
\* parseInt / parseFloat of a cell; String(undefined) is "undefined"
ParseIntOf(value) == IF value.k = "str" THEN parseInt(value.v) ELSE NaN
ParseFloatOf(value) == IF value.k = "str" THEN parseFloat(value.v) ELSE NaN
IsTrueText(value) == toLowerCase(value.v) = <<"t","r","u","e">>

\* getString() raising the flag on a null cell but never lowering it
getString_sticky(this, column) ==
  LET col == resolveColumn(this, column)
      value == getValue(this, col.v)
      read == [this EXCEPT !._wasNull = this._wasNull \/ (value.k = "null")]
  IN  IF IsThrow(col) THEN Result(this, col)
      ELSE IF IsThrow(value) THEN Result(this, value)
      ELSE Result(read, value)

getString(this, column) ==
  LET col == resolveColumn(this, column)
      value == getValue(this, col.v)
      read == [this EXCEPT !._wasNull = (value.k = "null")]
  IN  IF IsThrow(col) THEN Result(this, col)
      ELSE IF IsThrow(value) THEN Result(this, value)
      ELSE Result(read, value)

\* getInt() parsing without the null check: parseInt(null) is NaN
getInt_unguarded(this, column) ==
  LET col == resolveColumn(this, column)
      value == getValue(this, col.v)
      read == [this EXCEPT !._wasNull = (value.k = "null")]
  IN  IF IsThrow(col) THEN Result(this, col)
      ELSE IF IsThrow(value) THEN Result(this, value)
      ELSE Result(read, ParseIntOf(value))

getInt(this, column) ==
  LET col == resolveColumn(this, column)
      value == getValue(this, col.v)
      read == [this EXCEPT !._wasNull = (value.k = "null")]
  IN  IF IsThrow(col) THEN Result(this, col)
      ELSE IF IsThrow(value) THEN Result(this, value)
      ELSE Result(read, IF value.k = "null" THEN Num(0) ELSE ParseIntOf(value))

getFloat(this, column) ==
  LET col == resolveColumn(this, column)
      value == getValue(this, col.v)
      read == [this EXCEPT !._wasNull = (value.k = "null")]
  IN  IF IsThrow(col) THEN Result(this, col)
      ELSE IF IsThrow(value) THEN Result(this, value)
      ELSE Result(read, IF value.k = "null" THEN Num(0) ELSE ParseFloatOf(value))

getDouble(this, column) == getFloat(this, column)

getBoolean(this, column) ==
  LET col == resolveColumn(this, column)
      value == getValue(this, col.v)
      read == [this EXCEPT !._wasNull = (value.k = "null")]
  IN  IF IsThrow(col) THEN Result(this, col)
      ELSE IF IsThrow(value) THEN Result(this, value)
      ELSE IF value.k = "null" THEN Result(read, Bool(FALSE))
      ELSE IF value.k = "undefined" THEN Result(read, TypeError)
      ELSE Result(read, Bool(IsTrueText(value)))

\* getObject() also taking the lower-case spelling of the Boolean tag
getObject_any_case(this, column) ==
  LET col == resolveColumn(this, column)
      value == getValue(this, col.v)
      read == [this EXCEPT !._wasNull = (value.k = "null")]
      dataType == schema[col.v].data_type
  IN  IF IsThrow(col) THEN Result(this, col)
      ELSE IF IsThrow(value) THEN Result(this, value)
      ELSE IF value.k = "null" THEN Result(read, Null)
      ELSE IF dataType \in {"Int32", "Int64"} THEN Result(read, ParseIntOf(value))
      ELSE IF dataType \in {"Float32", "Float64"} THEN Result(read, ParseFloatOf(value))
      ELSE IF dataType \in {"Boolean", "boolean"}
      THEN IF value.k = "undefined" THEN Result(read, TypeError)
           ELSE Result(read, Bool(IsTrueText(value)))
      ELSE Result(read, value)

getObject(this, column) ==
  LET col == resolveColumn(this, column)
      value == getValue(this, col.v)
      read == [this EXCEPT !._wasNull = (value.k = "null")]
      dataType == schema[col.v].data_type
  IN  IF IsThrow(col) THEN Result(this, col)
      ELSE IF IsThrow(value) THEN Result(this, value)
      ELSE IF value.k = "null" THEN Result(read, Null)
      ELSE IF dataType \in {"Int32", "Int64"} THEN Result(read, ParseIntOf(value))
      ELSE IF dataType \in {"Float32", "Float64"} THEN Result(read, ParseFloatOf(value))
      ELSE IF dataType = "Boolean"
      THEN IF value.k = "undefined" THEN Result(read, TypeError)
           ELSE Result(read, Bool(IsTrueText(value)))
      ELSE Result(read, value)

wasNull(this) == this._wasNull

\* ---------------------------------------------------------------------------
\* Metadata
\* ---------------------------------------------------------------------------
\* a type tag returned as a string
Tag(dataType) == [k |-> "tag", v |-> dataType]

getColumnCount(this) == Result(this, Num(Len(schema)))

\* getColumnName() indexing the schema with the 1-based index itself
getColumnName_zero_based(this, columnIndex) ==
  IF columnIndex < 0 \/ columnIndex >= Len(schema)
  THEN Result(this, TypeError)
  ELSE Result(this, Str(schema[columnIndex + 1].name))

\* schema[columnIndex - 1] is undefined outside the schema: reading its name is
\* a TypeError
getColumnName(this, columnIndex) ==
  IF columnIndex < 1 \/ columnIndex > Len(schema)
  THEN Result(this, TypeError)
  ELSE Result(this, Str(schema[columnIndex].name))

getColumnType(this, columnIndex) ==
  IF columnIndex < 1 \/ columnIndex > Len(schema)
  THEN Result(this, TypeError)
  ELSE Result(this, Tag(schema[columnIndex].data_type))

\* a copy of the schema
getSchema(this) == Result(this, [k |-> "array", v |-> schema])

rowCount(this) == Result(this, Num(Len(data)))

\* ---------------------------------------------------------------------------
\* toArray and the iteration protocol
\* ---------------------------------------------------------------------------
\* the row record keeping the first value stored under a name
RECURSIVE rowRecord_first_wins(_, _, _)
rowRecord_first_wins(this, i, row) ==
  IF i > Len(schema) THEN Result(this, [k |-> "record", v |-> row])
  ELSE CHOOSE out \in
         { IF IsThrow(cell.ret) THEN cell
           ELSE rowRecord_first_wins(cell.this, i + 1,
                                     row @@ (schema[i].name :> cell.ret)) :
           cell \in { getObject(this, Num(i)) } } : TRUE

\* the record of the current row: row[schema[i - 1].name] = getObject(i) for
\* the columns from i on; a later column of the same name overwrites
RECURSIVE rowRecord(_, _, _)
rowRecord(this, i, row) ==
  IF i > Len(schema) THEN Result(this, [k |-> "record", v |-> row])
  ELSE CHOOSE out \in
         { IF IsThrow(cell.ret) THEN cell
           ELSE rowRecord(cell.this, i + 1, (schema[i].name :> cell.ret) @@ row) :
           cell \in { getObject(this, Num(i)) } } : TRUE

\* the while (this.next()) loop, rows holding the records pushed so far; each
\* step's outcome is bound through a singleton set, so it is computed once
RECURSIVE toArrayLoop(_, _)
toArrayLoop(this, rows) ==
  CHOOSE out \in
    { IF ~step.ret.v THEN Result(step.this, [k |-> "array", v |-> rows])
      ELSE CHOOSE walked \in
             { IF IsThrow(row.ret) THEN row
               ELSE toArrayLoop(row.this, Append(rows, row.ret)) :
               row \in { rowRecord(step.this, 1, << >>) } } : TRUE :
      step \in { next(this) } } : TRUE

toArray(this) ==
  LET saved == this.currentRow
      walk == toArrayLoop(beforeFirst(this).this, << >>)
  IN  IF IsThrow(walk.ret) THEN walk
      ELSE Result([walk.this EXCEPT !.currentRow = saved], walk.ret)

\* [Symbol.iterator]() without the reset
iterator_no_reset(this) == Result(this, Undefined)

\* [Symbol.iterator](): resets the cursor and returns an iterator over it
iterator(this) == beforeFirst(this)

\* the returned iterator's next() stepping from a position of its own that
\* no other call moves
iteratorNext_restarting(this) ==
  LET step == next(beforeFirst(this).this)
      row == rowRecord(step.this, 1, << >>)
  IN  IF ~step.ret.v
      THEN Result(step.this, [k |-> "iter", done |-> TRUE, value |-> Undefined])
      ELSE IF IsThrow(row.ret) THEN row
      ELSE Result(row.this, [k |-> "iter", done |-> FALSE, value |-> row.ret])

\* the returned iterator's next()
iteratorNext(this) ==
  LET step == next(this)
      row == rowRecord(step.this, 1, << >>)
  IN  IF ~step.ret.v
      THEN Result(step.this, [k |-> "iter", done |-> TRUE, value |-> Undefined])
      ELSE IF IsThrow(row.ret) THEN row
      ELSE Result(row.this, [k |-> "iter", done |-> FALSE, value |-> row.ret])

\* ---------------------------------------------------------------------------
\* Calls
\* ---------------------------------------------------------------------------
\* constructor: the entry's grid and schema, cursor before the first row
Init ==
  /\ entry \in EntrySet
  /\ data = constructor(entry).data
  /\ schema = constructor(entry).schema
  /\ currentRow = -1
  /\ _wasNull = FALSE
  /\ iterOpen = FALSE
  /\ call = [op |-> "new", arg |-> Undefined, ret |-> Undefined]
  /\ nextRun = 0
  /\ iterRun = -1
  /\ other = [currentRow |-> -1, _wasNull |-> FALSE, iterOpen |-> FALSE]
  /\ callOn = 1
  /\ decode = Undefined
  /\ request = Undefined
  /\ chips = Undefined

\* the steps taken on the iterator obtained last while no other call was made
\* on the cursor (as a for...of loop does): 0 when it is obtained, one more
\* per step up to the step that reports done, -1 otherwise
IterRunAfter(op, ret) ==
  IF op = "iterator" THEN 0
  ELSE IF /\ op = "iterator.next"
          /\ iterRun >= 0
          /\ iterRun <= Len(data)
          /\ ~IsThrow(ret)
       THEN iterRun + 1
       ELSE -1

\* one call of a method on the cursor: the fields and the observed result
Invoke(op, arg, res) ==
  /\ currentRow' = res.this.currentRow
  /\ _wasNull' = res.this._wasNull
  /\ call' = [op |-> op, arg |-> arg, ret |-> res.ret]
  /\ iterRun' = IterRunAfter(op, res.ret)
  /\ callOn' = 1
  /\ UNCHANGED << entry, data, schema, other, decode, request, chips >>

CallNext ==
  /\ currentRow < Len(data) + MaxOverrun
  /\ Invoke("next", Undefined, next(This))
  /\ nextRun' = IF nextRun >= 0 THEN nextRun + 1 ELSE -1
  /\ UNCHANGED iterOpen

CallPrevious ==
  /\ Invoke("previous", Undefined, previous(This))
  /\ nextRun' = -1
  /\ UNCHANGED iterOpen

CallFirst ==
  /\ Invoke("first", Undefined, first(This))
  /\ nextRun' = -1
  /\ UNCHANGED iterOpen

CallLast ==
  /\ Invoke("last", Undefined, last(This))
  /\ nextRun' = -1
  /\ UNCHANGED iterOpen

CallBeforeFirst ==
  /\ Invoke("beforeFirst", Undefined, beforeFirst(This))
  /\ nextRun' = 0
  /\ UNCHANGED iterOpen

CallAfterLast ==
  /\ Invoke("afterLast", Undefined, afterLast(This))
  /\ nextRun' = -1
  /\ UNCHANGED iterOpen

CallAbsolute ==
  \E row \in -MaxArg..MaxArg :
    /\ Invoke("absolute", Num(row), absolute(This, row))
    /\ nextRun' = -1
    /\ UNCHANGED iterOpen

CallRelative ==
  \E rows \in -MaxArg..MaxArg :
    /\ Invoke("relative", Num(rows), relative(This, rows))
    /\ nextRun' = -1
    /\ UNCHANGED iterOpen

\* column names used as arguments: each matches a column of some schema
\* ignoring case and no column of another
NameArgs == { <<"i","D">>, <<"O","K">> }

\* column arguments: 1-based indexes and names
ColumnArgs ==
  { Num(i) : i \in 0..MaxColumnArg }
    \cup { Str(n) : n \in NameArgs }

CallGetString ==
  \E column \in ColumnArgs :
    /\ Invoke("getString", column, getString(This, column))
    /\ UNCHANGED << iterOpen, nextRun >>

CallGetInt ==
  \E column \in ColumnArgs :
    /\ Invoke("getInt", column, getInt(This, column))
    /\ UNCHANGED << iterOpen, nextRun >>

CallGetFloat ==
  \E column \in ColumnArgs :
    /\ Invoke("getFloat", column, getFloat(This, column))
    /\ UNCHANGED << iterOpen, nextRun >>

CallGetDouble ==
  \E column \in ColumnArgs :
    /\ Invoke("getDouble", column, getDouble(This, column))
    /\ UNCHANGED << iterOpen, nextRun >>

CallGetBoolean ==
  \E column \in ColumnArgs :
    /\ Invoke("getBoolean", column, getBoolean(This, column))
    /\ UNCHANGED << iterOpen, nextRun >>

CallGetObject ==
  \E column \in ColumnArgs :
    /\ Invoke("getObject", column, getObject(This, column))
    /\ UNCHANGED << iterOpen, nextRun >>

CallFindColumn ==
  \E columnLabel \in NameArgs :
    /\ Invoke("findColumn", Str(columnLabel), Result(This, findColumn(This, columnLabel)))
    /\ UNCHANGED << iterOpen, nextRun >>

CallToArray ==
  /\ Invoke("toArray", Undefined, toArray(This))
  /\ nextRun' = -1
  /\ UNCHANGED iterOpen

CallIterator ==
  /\ Invoke("iterator", Undefined, iterator(This))
  /\ iterOpen' = TRUE
  /\ nextRun' = -1

CallIteratorNext ==
  /\ iterOpen
  /\ currentRow < Len(data) + MaxOverrun
  /\ Invoke("iterator.next", Undefined, iteratorNext(This))
  /\ nextRun' = -1
  /\ UNCHANGED iterOpen

CallGetColumnCount ==
  /\ Invoke("getColumnCount", Undefined, getColumnCount(This))
  /\ UNCHANGED << iterOpen, nextRun >>

CallGetColumnName ==
  \E columnIndex \in 0..MaxColumnArg :
    /\ Invoke("getColumnName", Num(columnIndex), getColumnName(This, columnIndex))
    /\ UNCHANGED << iterOpen, nextRun >>

CallGetColumnType ==
  \E columnIndex \in 0..MaxColumnArg :
    /\ Invoke("getColumnType", Num(columnIndex), getColumnType(This, columnIndex))
    /\ UNCHANGED << iterOpen, nextRun >>

CallGetSchema ==
  /\ Invoke("getSchema", Undefined, getSchema(This))
  /\ UNCHANGED << iterOpen, nextRun >>

CallRowCount ==
  /\ Invoke("rowCount", Undefined, rowCount(This))
  /\ UNCHANGED << iterOpen, nextRun >>

Next ==
  \/ CallNext
  \/ CallPrevious
  \/ CallFirst
  \/ CallLast
  \/ CallBeforeFirst
  \/ CallAfterLast
  \/ CallAbsolute
  \/ CallRelative
  \/ CallGetString
  \/ CallGetInt
  \/ CallGetFloat
  \/ CallGetDouble
  \/ CallGetBoolean
  \/ CallGetObject
  \/ CallFindColumn
  \/ CallToArray
  \/ CallIterator
  \/ CallIteratorNext

Spec == Init /\ [][Next]_vars

\* ---------------------------------------------------------------------------
\* Type coercion: cursors over one cell under one declared type tag
\* ---------------------------------------------------------------------------
TagSet ==
  { "Int32", "Int64", "Float32", "Float64", "Boolean", "Utf8",
    "int32", "boolean", "FLOAT64" }

CoerceCells ==
  { Null,
    Str(<<"1","2">>),
    Str(<<"-","7","x">>),
    Str(<<"1",".","5","0">>),
    Str(<<"T","R","U","E">>),
    Str(<<"t","r","u","e">>),
    Str(<<"a","b","c">>) }

InitCoerce ==
  /\ entry \in { [result |-> Rows(<< << cell >> >>), data |-> Undefined,
                  schema |-> Fields(<< [name |-> <<"c">>, data_type |-> tag] >>)] :
                  cell \in CoerceCells, tag \in TagSet }
  /\ data = constructor(entry).data
  /\ schema = constructor(entry).schema
  /\ currentRow = -1
  /\ _wasNull = FALSE
  /\ iterOpen = FALSE
  /\ call = [op |-> "new", arg |-> Undefined, ret |-> Undefined]
  /\ nextRun = 0
  /\ iterRun = -1
  /\ other = [currentRow |-> -1, _wasNull |-> FALSE, iterOpen |-> FALSE]
  /\ callOn = 1
  /\ decode = Undefined
  /\ request = Undefined
  /\ chips = Undefined

NextCoerce ==
  \/ CallNext
  \/ CallPrevious
  \/ CallGetObject

SpecCoerce == InitCoerce /\ [][NextCoerce]_vars

\* ---------------------------------------------------------------------------
\* Entries with absent fields: cursors over entries whose primary rows field,
\* fallback rows field and schema are each undefined, null or present, read
\* through the metadata methods
\* ---------------------------------------------------------------------------
PrimarySet ==
  { Undefined, Null, Rows(<< >>), Rows(<< << Null, Str(<<"T","r","u","e">>) >> >>) }

FallbackSet ==
  { Undefined, Null, Rows(<< >>),
    Rows(<< << Str(<<"2",".","5">>) >>, << Null, Str(<<"T","r","u","e">>) >> >>) }

FieldsSet ==
  { Undefined, Null, Fields(<< >>),
    Fields(<< [name |-> <<"i","d">>, data_type |-> "Int32"],
              [name |-> <<"o","k">>, data_type |-> "Boolean"] >>) }

InitEntry ==
  /\ entry \in [result : PrimarySet, data : FallbackSet, schema : FieldsSet]
  /\ data = constructor(entry).data
  /\ schema = constructor(entry).schema
  /\ currentRow = -1
  /\ _wasNull = FALSE
  /\ iterOpen = FALSE
  /\ call = [op |-> "new", arg |-> Undefined, ret |-> Undefined]
  /\ nextRun = 0
  /\ iterRun = -1
  /\ other = [currentRow |-> -1, _wasNull |-> FALSE, iterOpen |-> FALSE]
  /\ callOn = 1
  /\ decode = Undefined
  /\ request = Undefined
  /\ chips = Undefined

NextEntry ==
  \/ CallNext
  \/ CallGetString
  \/ CallGetColumnCount
  \/ CallGetColumnName
  \/ CallGetColumnType
  \/ CallGetSchema
  \/ CallRowCount

SpecEntry == InitEntry /\ [][NextEntry]_vars

\* ---------------------------------------------------------------------------
\* Two cursors over one entry: the calls above are made on the first cursor,
\* CallOnOther makes a call on the second
\* ---------------------------------------------------------------------------
\* the entries both cursors are constructed over
PairEntrySet ==
  { [result |-> Rows(<< << Null, Str(<<"T","r","u","e">>) >>, << Str(<<"2",".","5">>) >> >>),
     data |-> Undefined,
     schema |-> Fields(<< [name |-> <<"i","d">>, data_type |-> "Int32"],
                          [name |-> <<"o","k">>, data_type |-> "Boolean"] >>)],
    [result |-> Rows(<< << Null, Str(<<"T","r","u","e">>) >> >>),
     data |-> Undefined,
     schema |-> Fields(<< [name |-> <<"I","d">>, data_type |-> "Utf8"],
                          [name |-> <<"i","D">>, data_type |-> "Float64"] >>)] }

InitPair ==
  /\ entry \in PairEntrySet
  /\ data = constructor(entry).data
  /\ schema = constructor(entry).schema
  /\ currentRow = -1
  /\ _wasNull = FALSE
  /\ iterOpen = FALSE
  /\ call = [op |-> "new", arg |-> Undefined, ret |-> Undefined]
  /\ nextRun = 0
  /\ iterRun = -1
  /\ other = [currentRow |-> -1, _wasNull |-> FALSE, iterOpen |-> FALSE]
  /\ callOn = 1
  /\ decode = Undefined
  /\ request = Undefined
  /\ chips = Undefined

\* the method named op, called on a cursor with the fields `this`
Method(op, this, arg) ==
  CASE op = "next" -> next(this)
    [] op = "previous" -> previous(this)
    [] op = "getString" -> getString(this, arg)
    [] op = "toArray" -> toArray(this)
    [] op = "iterator" -> iterator(this)
    [] op = "iterator.next" -> iteratorNext(this)
    [] op = "getSchema" -> getSchema(this)

\* the arguments the second cursor's methods are called with
OtherArgs(op) ==
  CASE op = "getString" -> ColumnArgs
    [] OTHER -> { Undefined }

OtherOps ==
  { "next", "previous", "getString", "toArray", "iterator", "iterator.next",
    "getSchema" }

CallOnOther ==
  \E op \in OtherOps : \E arg \in OtherArgs(op) :
    /\ op = "iterator.next" => other.iterOpen
    /\ op \in {"next", "iterator.next"} => other.currentRow < Len(data) + MaxOverrun
    /\ other' = [currentRow |-> Method(op, OtherThis, arg).this.currentRow,
                 _wasNull |-> Method(op, OtherThis, arg).this._wasNull,
                 iterOpen |-> other.iterOpen \/ op = "iterator"]
    /\ call' = [op |-> op, arg |-> arg, ret |-> Method(op, OtherThis, arg).ret]
    /\ callOn' = 2
    /\ UNCHANGED << entry, data, schema, currentRow, _wasNull, iterOpen, nextRun, iterRun,
                    decode, request, chips >>

NextPair ==
  \/ CallNext
  \/ CallPrevious
  \/ CallGetString
  \/ CallToArray
  \/ CallIterator
  \/ CallIteratorNext
  \/ CallGetSchema
  \/ CallOnOther

SpecPair == InitPair /\ [][NextPair]_vars

\* ---------------------------------------------------------------------------
\* Streaming decoder: parseJsonStream over a JSONParser (@streamparser/json,
\* default options: no separator, every value emitted).  A body is a sequence
\* of bytes out of Bytes; the decoded values are numbers, strings and arrays.
\* ---------------------------------------------------------------------------
\* bytes of a body: brackets, comma, a digit, a space, a quote, and a letter
\* that no JSON text holds outside a string
Bytes == { "[", "]", ",", "1", " ", "\"", "x" }

BodySet == SeqsUpTo(Bytes, MaxBody)

Array(elements) == [k |-> "array", v |-> elements]

\* response.json() / JSON.parse: the value at index i and the index after it
ParseFailed == [ok |-> FALSE, v |-> Undefined, i |-> 0]

\* index of the first quote from i on, 0 when there is none
RECURSIVE QuoteAt(_, _)
QuoteAt(s, i) ==
  IF i > Len(s) THEN 0 ELSE IF s[i] = "\"" THEN i ELSE QuoteAt(s, i + 1)

RECURSIVE ParseValue(_, _)
RECURSIVE ParseElements(_, _, _)
ParseValue(s, i) ==
  LET j == SkipWhite(s, i)
  IN  IF j > Len(s) THEN ParseFailed
      ELSE IF IsDigit(s[j])
      THEN [ok |-> TRUE, v |-> Num(DigitsValue(s, j, DigitsEnd(s, j), 0)),
            i |-> DigitsEnd(s, j)]
      ELSE IF s[j] = "\""
      THEN IF QuoteAt(s, j + 1) = 0 THEN ParseFailed
           ELSE [ok |-> TRUE, v |-> Str(SubSeq(s, j + 1, QuoteAt(s, j + 1) - 1)),
                 i |-> QuoteAt(s, j + 1) + 1]
      ELSE IF s[j] = "["
      THEN IF SkipWhite(s, j + 1) <= Len(s) /\ s[SkipWhite(s, j + 1)] = "]"
           THEN [ok |-> TRUE, v |-> Array(<< >>), i |-> SkipWhite(s, j + 1) + 1]
           ELSE ParseElements(s, j + 1, << >>)
      ELSE ParseFailed

ParseElements(s, i, elements) ==
  CHOOSE out \in
    { IF ~element.ok THEN ParseFailed
      ELSE LET k == SkipWhite(s, element.i)
           IN  IF k > Len(s) THEN ParseFailed
               ELSE IF s[k] = "," THEN ParseElements(s, k + 1, Append(elements, element.v))
               ELSE IF s[k] = "]"
               THEN [ok |-> TRUE, v |-> Array(Append(elements, element.v)), i |-> k + 1]
               ELSE ParseFailed :
      element \in { ParseValue(s, i) } } : TRUE

SyntaxError == Throw("SyntaxError", Undefined)

JSONparse(s) ==
  CHOOSE out \in
    { IF root.ok /\ SkipWhite(s, root.i) > Len(s) THEN root.v ELSE SyntaxError :
      root \in { ParseValue(s, 1) } } : TRUE

\* the promise parseJsonStream returns: a settled promise stays as it is
Pending == [k |-> "pending"]
Resolved(value) == [k |-> "resolved", v |-> value]
Rejected(err) == [k |-> "rejected", v |-> err]

resolve(d, value) ==
  IF d.promise.k = "pending" THEN [d EXCEPT !.promise = Resolved(value)] ELSE d

reject(d, err) ==
  IF d.promise.k = "pending" THEN [d EXCEPT !.promise = Rejected(err)] ELSE d

\* parser.onValue: keeps the value emitted with an empty stack; emitted is the
\* list of the onValue events so far
onValue(d, value, stackLength) ==
  [d EXCEPT !.result = IF stackLength = 0 THEN value ELSE @,
            !.emitted = Append(@, [value |-> value, stack |-> stackLength])]

\* parser.onEnd and parser.onError
onEnd(d) == resolve([d EXCEPT !.ended = TRUE], d.result)
onError(d, err) == reject(d, err)

\* Tokenizer.error
tokenizer_error(d, err) ==
  onError([d EXCEPT !.tok = IF @ = "ENDED" THEN @ ELSE "ERROR"], err)

\* TokenParser.error; its onError is Tokenizer.error
tokenParser_error(d, err) ==
  tokenizer_error([d EXCEPT !.state = IF @ = "ENDED" THEN @ ELSE "ERROR"], err)

RECURSIVE tokenizer_end(_)
RECURSIVE tokenParser_end(_)
RECURSIVE tokenParser_write(_, _, _)

\* TokenParser.emit: onValue, then the parser ends once the root is complete
emit(d, value) ==
  CHOOSE out \in
    { IF Len(d.open) = 0 THEN tokenParser_end(told) ELSE told :
      told \in { onValue(d, value, Len(d.open)) } } : TRUE

\* TokenParser.pop: the innermost open array is closed
pop(d) ==
  LET closed == Array(d.open[Len(d.open)])
      outer == SubSeq(d.open, 1, Len(d.open) - 1)
  IN  IF outer = << >>
      THEN emit([d EXCEPT !.open = outer, !.state = "VALUE"], closed)
      ELSE emit([d EXCEPT !.open = [outer EXCEPT ![Len(outer)] = Append(@, closed)],
                          !.state = "COMMA"], closed)

\* TokenParser.write
tokenParser_write(d, token, value) ==
  IF d.state = "VALUE" /\ token \in {"NUMBER", "STRING"}
  THEN IF d.open = << >> THEN emit(d, value)
       ELSE emit([d EXCEPT !.open[Len(d.open)] = Append(@, value), !.state = "COMMA"],
                 value)
  ELSE IF d.state = "VALUE" /\ token = "LEFT_BRACKET"
  THEN [d EXCEPT !.open = Append(@, << >>)]
  ELSE IF /\ d.state = "VALUE" /\ token = "RIGHT_BRACKET"
          /\ d.open # << >> /\ d.open[Len(d.open)] = << >>
  THEN pop(d)
  ELSE IF d.state = "COMMA" /\ token = "COMMA" /\ d.open # << >>
  THEN [d EXCEPT !.state = "VALUE"]
  ELSE IF d.state = "COMMA" /\ token = "RIGHT_BRACKET" /\ d.open # << >>
  THEN pop(d)
  ELSE tokenParser_error(d, Throw("Unexpected token", Tag(token)))

\* TokenParser.end; its onEnd ends the tokenizer first and then calls
\* parser.onEnd
tokenParser_end(d) ==
  IF d.state # "VALUE" \/ d.open # << >>
  THEN tokenParser_error(d, Throw("Parser ended in mid-parsing", Undefined))
  ELSE CHOOSE out \in
         { onEnd(IF done.tok = "ENDED" THEN done ELSE tokenizer_end(done)) :
           done \in { [d EXCEPT !.state = "ENDED"] } } : TRUE

\* Tokenizer.emitNumber
emitNumber(d) ==
  tokenParser_write([d EXCEPT !.num = << >>], "NUMBER",
                    Num(DigitsValue(d.num, 1, Len(d.num) + 1, 0)))

\* Tokenizer.end; its onEnd ends the token parser unless it has ended
tokenizer_end(d) ==
  IF d.tok \in {"NUMBER", "START", "ERROR"}
  THEN CHOOSE out \in
         { IF flushed.state = "ENDED" THEN flushed ELSE tokenParser_end(flushed) :
           flushed \in { IF d.tok = "NUMBER" THEN emitNumber([d EXCEPT !.tok = "ENDED"])
                         ELSE [d EXCEPT !.tok = "ENDED"] } } : TRUE
  ELSE tokenizer_error(d, Throw("Tokenizer ended in the middle of a token", Tag(d.tok)))

\* one byte n in the loop of Tokenizer.write: the tokenizer afterwards, and
\* whether the byte was unexpected (the loop throws)
RECURSIVE tokenizer_byte(_, _)
tokenizer_byte(d, n) ==
  CASE d.tok = "START" ->
         IF n = " " THEN [d |-> d, thrown |-> FALSE]
         ELSE IF n = "[" THEN [d |-> tokenParser_write(d, "LEFT_BRACKET", Undefined), thrown |-> FALSE]
         ELSE IF n = "]" THEN [d |-> tokenParser_write(d, "RIGHT_BRACKET", Undefined), thrown |-> FALSE]
         ELSE IF n = "," THEN [d |-> tokenParser_write(d, "COMMA", Undefined), thrown |-> FALSE]
         ELSE IF n = "\"" THEN [d |-> [d EXCEPT !.tok = "STRING", !.str = << >>], thrown |-> FALSE]
         ELSE IF IsDigit(n) THEN [d |-> [d EXCEPT !.tok = "NUMBER", !.num = << n >>], thrown |-> FALSE]
         ELSE [d |-> d, thrown |-> TRUE]
    [] d.tok = "NUMBER" ->
         IF IsDigit(n) THEN [d |-> [d EXCEPT !.num = Append(@, n)], thrown |-> FALSE]
         ELSE CHOOSE out \in
                { tokenizer_byte(numbered, n) :
                  numbered \in { emitNumber([d EXCEPT !.tok = "START"]) } } : TRUE
    [] d.tok = "STRING" ->
         IF n = "\""
         THEN [d |-> tokenParser_write([d EXCEPT !.tok = "START", !.str = << >>],
                                       "STRING", Str(d.str)),
               thrown |-> FALSE]
         ELSE [d |-> [d EXCEPT !.str = Append(@, n)], thrown |-> FALSE]
    [] d.tok = "ENDED" ->
         IF n = " " THEN [d |-> d, thrown |-> FALSE] ELSE [d |-> d, thrown |-> TRUE]
    [] d.tok = "ERROR" -> [d |-> d, thrown |-> TRUE]

\* the loop of Tokenizer.write from byte i of the buffer on
RECURSIVE tokenizer_loop(_, _, _)
tokenizer_loop(d, buffer, i) ==
  IF i > Len(buffer) THEN d
  ELSE CHOOSE out \in
         { IF step.thrown
           THEN tokenizer_error(step.d, Throw("Unexpected byte", Num(i - 1)))
           ELSE tokenizer_loop(step.d, buffer, i + 1) :
           step \in { tokenizer_byte(d, buffer[i]) } } : TRUE

\* Tokenizer.write handing a number on at the end of the buffer
tokenizer_write_flushing(d, buffer) ==
  CHOOSE out \in
    { IF fed.tok = "NUMBER" THEN emitNumber([fed EXCEPT !.tok = "START"]) ELSE fed :
      fed \in { tokenizer_loop(d, buffer, 1) } } : TRUE

\* Tokenizer.write: an error thrown in the loop ends it and goes to error()
tokenizer_write(d, buffer) == tokenizer_loop(d, buffer, 1)

\* new JSONParser(), the result variable and the promise
NewParser ==
  [tok |-> "START", num |-> << >>, str |-> << >>, state |-> "VALUE", open |-> << >>,
   result |-> Undefined, ended |-> FALSE, emitted |-> << >>, promise |-> Pending]

\* the error reader.read() or response.json() rejects with
ReadError == Throw("TypeError", Str(<<"r","e","a","d">>))

\* pump().catch(reject) left out: a failed read ends the pump silently
readFailed_unhandled(d) == [d EXCEPT !.pump = "failed"]

\* reader.read() rejects: pump() rejects and the promise is rejected with it
readFailed(d) == reject([d EXCEPT !.pump = "failed"], ReadError)

\* parseJsonStream is called on a response whose body is a stream or null;
\* chunks counts the chunks read so far
InitDecode ==
  /\ decode \in { NewParser @@ [body |-> body, stream |-> stream, offset |-> 0,
                                 chunks |-> 0, pump |-> "reading"] :
                   body \in BodySet, stream \in BOOLEAN }
  /\ entry = Undefined
  /\ data = << >>
  /\ schema = << >>
  /\ currentRow = -1
  /\ _wasNull = FALSE
  /\ iterOpen = FALSE
  /\ call = [op |-> "new", arg |-> Undefined, ret |-> Undefined]
  /\ nextRun = 0
  /\ iterRun = -1
  /\ other = [currentRow |-> -1, _wasNull |-> FALSE, iterOpen |-> FALSE]
  /\ callOn = 1
  /\ request = Undefined
  /\ chips = Undefined

\* reader.read() gives the next chunk, of any length: parser.write(value)
ReadChunk ==
  /\ decode.stream
  /\ decode.pump = "reading"
  /\ \E n \in 1..(Len(decode.body) - decode.offset) :
       decode' = [tokenizer_write(decode, SubSeq(decode.body, decode.offset + 1,
                                                 decode.offset + n))
                    EXCEPT !.offset = decode.offset + n, !.chunks = decode.chunks + 1]
  /\ UNCHANGED << cursorVars, request, chips >>

\* reader.read() reports done: parser.end() and the pump ends
ReadDone ==
  /\ decode.stream
  /\ decode.pump = "reading"
  /\ decode.offset = Len(decode.body)
  /\ decode' = [tokenizer_end(decode) EXCEPT !.pump = "ended"]
  /\ UNCHANGED << cursorVars, request, chips >>

\* reader.read() rejects, before any chunk, between chunks or at the end
ReadFails ==
  /\ decode.stream
  /\ decode.pump = "reading"
  /\ decode' = readFailed(decode)
  /\ UNCHANGED << cursorVars, request, chips >>

\* no body stream: await response.json()
AwaitJson ==
  /\ ~decode.stream
  /\ decode.pump = "reading"
  /\ \/ decode' = IF IsThrow(JSONparse(decode.body))
                   THEN reject([decode EXCEPT !.pump = "ended"], JSONparse(decode.body))
                   ELSE resolve([decode EXCEPT !.pump = "ended"], JSONparse(decode.body))
     \/ decode' = reject([decode EXCEPT !.pump = "failed"], ReadError)
  /\ UNCHANGED << cursorVars, request, chips >>

NextDecode ==
  \/ ReadChunk
  \/ ReadDone
  \/ ReadFails
  \/ AwaitJson

SpecDecode == InitDecode /\ [][NextDecode]_vars

\* ---------------------------------------------------------------------------
\* Requests: get, post, sendCommand and generateReport.  A response body is a
\* document: its text, and what parseJsonStream settles with when every chunk
\* of it is read.
\* ---------------------------------------------------------------------------
\* an object by its fields, and an object by its members in Object.entries
\* order
Object(fields) == [k |-> "object", v |-> fields]
Dictionary(members) == [k |-> "object", members |-> members]

\* result entries: one with rows, one with the error field set
RowsEntry ==
  Object([idx |-> Str(<<"0">>), error |-> Null,
          result |-> Array(<< Array(<< Str(<<"1">>) >>) >>), schema |-> Array(<< >>)])

ErrorEntry ==
  Object([idx |-> Str(<<"1">>), error |-> Str(<<"T","a","b","l","e">>),
          result |-> Null, schema |-> Null])

DocSet ==
  { [text |-> "{result:{0:rows,1:error}}",
     decoded |-> Resolved(Object([result |->
                   Dictionary(<< [key |-> <<"0">>, value |-> RowsEntry],
                                 [key |-> <<"1">>, value |-> ErrorEntry] >>)]))],
    [text |-> "{result:{1:error}}",
     decoded |-> Resolved(Object([result |->
                   Dictionary(<< [key |-> <<"1">>, value |-> ErrorEntry] >>)]))],
    [text |-> "{result:{1:rows,01:error}}",
     decoded |-> Resolved(Object([result |->
                   Dictionary(<< [key |-> <<"1">>, value |-> RowsEntry],
                                 [key |-> <<"0","1">>, value |-> ErrorEntry] >>)]))],
    [text |-> "{result:null,error:boom}",
     decoded |-> Resolved(Object([result |-> Null, error |-> Str(<<"b","o","o","m">>)]))],
    [text |-> "null", decoded |-> Resolved(Null)],
    [text |-> "", decoded |-> Resolved(Undefined)],
    [text |-> "{result:", decoded |-> Rejected(Throw("Parser ended in mid-parsing", Undefined))] }

StatusSet == { 200, 299, 404, 500 }

\* response.ok taking every status below 500 for a success
ok_below_500(status) == status < 500

\* response.ok
ok(status) == status >= 200 /\ status <= 299

AbortError == Throw("AbortError", Undefined)
FetchError == Throw("TypeError", Str(<<"f","e","t","c","h">>))

DatalatheApiError(statusCode, responseBody) ==
  [k |-> "throw", msg |-> "DatalatheApiError",
   key |-> [statusCode |-> statusCode, responseBody |-> responseBody]]

DatalatheStageError(message) ==
  [k |-> "throw", msg |-> "DatalatheStageError", key |-> message]

\* the condition of if (value)
truthy(value) ==
  CASE value.k \in {"null", "undefined", "NaN"} -> FALSE
    [] value.k = "bool" -> value.v
    [] value.k = "num" -> value.v # 0
    [] value.k = "str" -> Len(value.v) > 0
    [] OTHER -> TRUE

\* results.set(parseInt(key, 10), entry) for the members from i on
RECURSIVE setAll(_, _, _)
setAll(members, i, results) ==
  IF i > Len(members) THEN results
  ELSE setAll(members, i + 1, (parseInt(members[i].key) :> members[i].value) @@ results)

\* generateReport raising an entry's error field as createChips raises a
\* response's
generateReport_raising(response) ==
  IF Nullish(response) THEN Rejected(TypeError)
  ELSE IF ~truthy(response.v.result) THEN Resolved([k |-> "Map", v |-> << >>])
  ELSE IF \E i \in 1..Len(response.v.result.members) :
            truthy(response.v.result.members[i].value.v.error)
  THEN Rejected(DatalatheStageError(<<"e","r","r","o","r">>))
  ELSE Resolved([k |-> "Map", v |-> setAll(response.v.result.members, 1, << >>)])

\* generateReport after await this.sendCommand(command): reading
\* response.result of null or undefined is a TypeError
generateReport(response) ==
  IF Nullish(response) THEN Rejected(TypeError)
  ELSE IF ~truthy(response.v.result) THEN Resolved([k |-> "Map", v |-> << >>])
  ELSE Resolved([k |-> "Map", v |-> setAll(response.v.result.members, 1, << >>)])

\* clearTimeout(timeoutId) in the finally block
clearTimeout(r) ==
  [r EXCEPT !.timer = IF @ = "armed" THEN "cleared" ELSE @, !.clears = @ + 1]

\* the promise the request method returned is settled
settle(r, outcome) == [r EXCEPT !.pc = "settled", !.outcome = outcome]

\* a request method has run to its first await: the timer is armed and the
\* fetch is pending
InitRequest ==
  /\ request \in { [api |-> api, pc |-> "fetch", timer |-> "armed", clears |-> 0,
                     aborted |-> FALSE, response |-> Undefined, text |-> Undefined,
                     fed |-> FALSE, parsed |-> 0, outcome |-> Pending] :
                     api \in {"get", "post", "sendCommand", "generateReport"} }
  /\ decode = Undefined
  /\ chips = Undefined
  /\ entry = Undefined
  /\ data = << >>
  /\ schema = << >>
  /\ currentRow = -1
  /\ _wasNull = FALSE
  /\ iterOpen = FALSE
  /\ call = [op |-> "new", arg |-> Undefined, ret |-> Undefined]
  /\ nextRun = 0
  /\ iterRun = -1
  /\ other = [currentRow |-> -1, _wasNull |-> FALSE, iterOpen |-> FALSE]
  /\ callOn = 1

\* the timer fires: controller.abort()
TimerFires ==
  /\ request.timer = "armed"
  /\ request' = [request EXCEPT !.timer = "fired", !.aborted = TRUE]
  /\ UNCHANGED << cursorVars, decode, chips >>

\* fetch resolves with the response headers.  Not ok: the method awaits
\* response.text().  Ok: parseJsonStream(response) is called; get and post
\* return its promise, so their finally block runs at once; sendCommand
\* awaits it.
FetchResolves ==
  /\ request.pc = "fetch"
  /\ ~request.aborted
  /\ \E status \in StatusSet : \E body \in DocSet :
       request' =
         IF ~ok(status)
         THEN [request EXCEPT !.pc = "text",
                              !.response = [k |-> "response", status |-> status, body |-> body]]
         ELSE IF request.api \in {"get", "post"}
         THEN clearTimeout([request EXCEPT !.pc = "decode", !.fed = TRUE,
                              !.response = [k |-> "response", status |-> status, body |-> body]])
         ELSE [request EXCEPT !.pc = "decode", !.fed = TRUE,
                              !.response = [k |-> "response", status |-> status, body |-> body]]
  /\ UNCHANGED << cursorVars, decode, chips >>

\* fetch rejects: no connection, or the abort
FetchRejects ==
  /\ request.pc = "fetch"
  /\ request' = clearTimeout(settle(request,
                   Rejected(IF request.aborted THEN AbortError ELSE FetchError)))
  /\ UNCHANGED << cursorVars, decode, chips >>

\* response.text() resolves: throw new DatalatheApiError
TextResolves ==
  /\ request.pc = "text"
  /\ ~request.aborted
  /\ request' = clearTimeout(settle([request EXCEPT !.text = Tag(request.response.body.text)],
                   Rejected(DatalatheApiError(request.response.status,
                                              request.response.body.text))))
  /\ UNCHANGED << cursorVars, decode, chips >>

\* response.text() rejects: the body cannot be read, or the abort
TextRejects ==
  /\ request.pc = "text"
  /\ request' = clearTimeout(settle(request,
                   Rejected(IF request.aborted THEN AbortError ELSE ReadError)))
  /\ UNCHANGED << cursorVars, decode, chips >>

\* what parseJsonStream's promise can settle with
DecodeOutcomes(r) ==
  IF r.aborted THEN { Rejected(AbortError) }
  ELSE { r.response.body.decoded, Rejected(ReadError) }

\* parseJsonStream's promise settles.  get and post settle with it;
\* sendCommand calls command.parseResponse(json) and clears the timer;
\* generateReport goes on to build its map
DecodeSettles ==
  /\ request.pc = "decode"
  /\ \E json \in DecodeOutcomes(request) :
       request' =
         IF request.api \in {"get", "post"} THEN settle(request, json)
         ELSE IF json.k = "rejected" THEN clearTimeout(settle(request, json))
         ELSE IF request.api = "sendCommand"
         THEN clearTimeout(settle([request EXCEPT !.parsed = @ + 1], json))
         ELSE clearTimeout(settle([request EXCEPT !.parsed = @ + 1], generateReport(json.v)))
  /\ UNCHANGED << cursorVars, decode, chips >>

NextRequest ==
  \/ TimerFires
  \/ FetchResolves
  \/ FetchRejects
  \/ TextResolves
  \/ TextRejects
  \/ DecodeSettles

SpecRequest == InitRequest /\ [][NextRequest]_vars

\* ---------------------------------------------------------------------------
\* createChips: one sendCommand per source, awaited in turn
\* ---------------------------------------------------------------------------
\* what a sendCommand of a CreateChipCommand settles with: a staged chip, a
\* staged chip under an empty error text, a stage error, the response of an
\* empty body, and the rejections of the request
ReplySet ==
  { Resolved(Object([chip_id |-> Str(<<"c","1">>), error |-> Null])),
    Resolved(Object([chip_id |-> Str(<<"c","2">>), error |-> Str(<< >>)])),
    Resolved(Object([chip_id |-> Null, error |-> Str(<<"g","o","n","e">>)])),
    Resolved(Undefined),
    Rejected(DatalatheApiError(500, "")),
    Rejected(AbortError) }

\* createChips going on to the next source after a response carrying an error
createChips_skipping(c, reply) ==
  CHOOSE out \in
    { IF reply.k = "rejected" THEN [r EXCEPT !.outcome = reply]
      ELSE IF Nullish(reply.v) THEN [r EXCEPT !.outcome = Rejected(TypeError)]
      ELSE CHOOSE pushed \in
             { IF Len(p.sent) < Len(p.sources)
               THEN [p EXCEPT !.sent = Append(@, p.sources[Len(p.sent) + 1]),
                              !.inFlight = TRUE]
               ELSE [p EXCEPT !.outcome = Resolved(Array(p.chipIds))] :
               p \in { IF truthy(reply.v.v.error) THEN r
                       ELSE [r EXCEPT !.chipIds = Append(@, reply.v.v.chip_id)] } } : TRUE :
      r \in { [c EXCEPT !.replies = Append(@, reply), !.inFlight = FALSE] } } : TRUE

\* createChips from the settling of await this.sendCommand(command) to its
\* next await, its throw or its return
createChips(c, reply) ==
  CHOOSE out \in
    { IF reply.k = "rejected" THEN [r EXCEPT !.outcome = reply]
      ELSE IF Nullish(reply.v) THEN [r EXCEPT !.outcome = Rejected(TypeError)]
      ELSE IF truthy(reply.v.v.error)
      THEN [r EXCEPT !.outcome = Rejected(DatalatheStageError(reply.v.v.error.v))]
      ELSE CHOOSE pushed \in
             { IF Len(p.sent) < Len(p.sources)
               THEN [p EXCEPT !.sent = Append(@, p.sources[Len(p.sent) + 1]),
                              !.inFlight = TRUE]
               ELSE [p EXCEPT !.outcome = Resolved(Array(p.chipIds))] :
               p \in { [r EXCEPT !.chipIds = Append(@, reply.v.v.chip_id)] } } : TRUE :
      r \in { [c EXCEPT !.replies = Append(@, reply), !.inFlight = FALSE] } } : TRUE

\* createChips(sources) has run to its first await, or has returned the empty
\* list for no sources
InitChips ==
  /\ chips \in { [sources |-> sources,
                   sent |-> IF Len(sources) = 0 THEN << >> ELSE << sources[1] >>,
                   inFlight |-> Len(sources) > 0,
                   replies |-> << >>,
                   chipIds |-> << >>,
                   outcome |-> IF Len(sources) = 0 THEN Resolved(Array(<< >>)) ELSE Pending] :
                   sources \in SeqsUpTo({"users", "orders"}, MaxSources) }
  /\ request = Undefined
  /\ decode = Undefined
  /\ entry = Undefined
  /\ data = << >>
  /\ schema = << >>
  /\ currentRow = -1
  /\ _wasNull = FALSE
  /\ iterOpen = FALSE
  /\ call = [op |-> "new", arg |-> Undefined, ret |-> Undefined]
  /\ nextRun = 0
  /\ iterRun = -1
  /\ other = [currentRow |-> -1, _wasNull |-> FALSE, iterOpen |-> FALSE]
  /\ callOn = 1

\* the sendCommand in flight settles
SendCommandSettles ==
  /\ chips.inFlight
  /\ \E reply \in ReplySet : chips' = createChips(chips, reply)
  /\ UNCHANGED << cursorVars, decode, request >>

NextChips == SendCommandSettles

SpecChips == InitChips /\ [][NextChips]_vars

\* ---------------------------------------------------------------------------
\* Properties
\* ---------------------------------------------------------------------------
Accessors ==
  {"getString", "getInt", "getFloat", "getDouble", "getBoolean", "getObject"}

\* the cursor is on a row of the grid
OnRow(row) == row >= 0 /\ row < Len(data)

\* the last call was an accessor call with an index within the schema
ValidIndexArg(c) == c.arg.k = "num" /\ c.arg.v >= 1 /\ c.arg.v <= Len(schema)

\* the raw cell of row `row` (0-based) and column `col` (1-based) is null
CellIsNull(row, col) ==
  /\ col <= Len(data[row + 1])
  /\ data[row + 1][col].k = "null"

\* the 1-based index the last accessor call's column argument resolved to
ResolvedIndex(c) == resolveColumn(This, c.arg).v

\* C1: after any sequence of cursor operations on a grid of R rows the
\* position is an integer in [-1, R].
C1_PositionInRange ==
  currentRow >= -1 /\ currentRow <= Len(data)

\* C2: from a fresh or beforeFirst()-reset cursor exactly the first R
\* consecutive next() calls return true and the (R+1)th returns false; after k
\* successful calls getRow() is k, and it is 0 before the first call.
C2_NextFromBeforeFirst ==
  /\ nextRun = 0 => getRow(This) = 0
  /\ (nextRun >= 1 /\ nextRun <= Len(data)) => getRow(This) = nextRun
  /\ (nextRun >= 1 /\ nextRun <= Len(data) + 1 /\ call.op = "next")
       => call.ret = Bool(nextRun <= Len(data))

C2_Witness ==
  /\ Len(data) >= 2
  /\ call.op = "next"
  /\ nextRun = Len(data) + 1
  /\ call.ret = Bool(FALSE)

\* C3: whenever next() returns false the position afterwards is exactly
\* rowCount, also when the cursor was already after-last or the grid is empty.
C3_NextFalseLeavesAfterLast ==
  (call.op = "next" /\ call.ret = Bool(FALSE)) => currentRow = Len(data)

\* C4: a scalar accessor called with a valid column index while the cursor is
\* not on a valid row fails with the no-current-row error and leaves the
\* position and the wasNull flag unchanged.
C4_NoCurrentRow ==
  [][ (call'.op \in Accessors /\ ValidIndexArg(call') /\ ~OnRow(currentRow))
        => /\ call'.ret = Throw("No current row", Undefined)
           /\ currentRow' = currentRow
           /\ _wasNull' = _wasNull ]_vars

C4_Witness ==
  /\ call.op = "getBoolean"
  /\ ValidIndexArg(call)
  /\ call.ret = Throw("No current row", Undefined)
  /\ currentRow = Len(data)
  /\ Len(data) >= 1
  /\ _wasNull

\* C5: after every scalar accessor call that returns normally wasNull() equals
\* (the raw cell at the current row and resolved column is null), whatever the
\* flag held before; on a fresh cursor wasNull() is false.
C5_WasNullTracksCell ==
  /\ call.op = "new" => ~wasNull(This)
  /\ (call.op \in Accessors /\ ~IsThrow(call.ret))
       => wasNull(This) = CellIsNull(currentRow, ResolvedIndex(call))

C5_Witness ==
  /\ call.op = "getString"
  /\ call.ret.k = "str"
  /\ ~wasNull(This)
  /\ \E r \in 1..Len(data) : data[r][1].k = "null"

\* C6: on a valid row whose addressed cell is null getString returns null,
\* getInt, getFloat and getDouble return 0, getBoolean returns false and
\* getObject returns null for every type tag; getDouble gives the same result
\* and the same wasNull effect as getFloat on every cell.
C6_NullCellDefaults ==
  [][ /\ ( /\ call'.op \in Accessors
           /\ ~IsThrow(resolveColumn(This, call'.arg))
           /\ OnRow(currentRow)
           /\ ResolvedIndex(call') >= 1
           /\ ResolvedIndex(call') <= Len(schema)
           /\ CellIsNull(currentRow, ResolvedIndex(call')) )
        => call'.ret = CASE call'.op \in {"getString", "getObject"} -> Null
                         [] call'.op \in {"getInt", "getFloat", "getDouble"} -> Num(0)
                         [] call'.op = "getBoolean" -> Bool(FALSE)
      /\ call'.op = "getDouble"
        => Result(This', call'.ret) = getFloat(This, call'.arg) ]_vars

C6_Witness ==
  /\ call.op = "getObject"
  /\ call.ret = Null
  /\ ValidIndexArg(call)
  /\ schema[call.arg.v].data_type = "Boolean"
  /\ OnRow(currentRow)
  /\ wasNull(This)

\* C7: absolute(n) resolves a negative n to rowCount + n + 1; a resolved value
\* in [1, rowCount] moves to resolved - 1 and returns true, any other
\* (n = 0 included) moves to rowCount and returns false.
C7_Absolute ==
  call.op = "absolute"
    => LET n == call.arg.v
           resolved == IF n < 0 THEN Len(data) + n + 1 ELSE n
       IN  IF resolved >= 1 /\ resolved <= Len(data)
           THEN currentRow = resolved - 1 /\ call.ret = Bool(TRUE)
           ELSE currentRow = Len(data) /\ call.ret = Bool(FALSE)

C7_Witness ==
  /\ call.op = "absolute"
  /\ call.arg = Num(-2)
  /\ Len(data) >= 2
  /\ currentRow = Len(data) - 2
  /\ call.ret = Bool(TRUE)

\* C8: from every position p relative(d) returns the same boolean and leaves
\* the same position as absolute(p + 1 + d) would from the same state.
C8_RelativeIsAbsolute ==
  [][ call'.op = "relative"
        => Result(This', call'.ret) = absolute(This, currentRow + 1 + call'.arg.v) ]_vars

C8_Witness ==
  /\ call.op = "relative"
  /\ call.arg = Num(-1)
  /\ call.ret = Bool(TRUE)
  /\ Len(data) >= 2
  /\ currentRow = Len(data) - 1

\* C9 as stated: absolute(-1) returns the same boolean and leaves the same
\* position as last() from every position and for every grid size.
C9_AbsoluteMinusOneIsLast ==
  [][ (call'.op = "absolute" /\ call'.arg = Num(-1))
        => Result(This', call'.ret) = last(This) ]_vars

\* C9 amended: absolute(-1) and last() return the same boolean from every
\* position and for every grid size; on a non-empty grid both leave the cursor
\* on the last row, on an empty grid absolute(-1) moves to rowCount (0) while
\* last() does not move.
C9_AbsoluteMinusOneVsLast ==
  [][ /\ (call'.op = "absolute" /\ call'.arg = Num(-1))
        => /\ call'.ret = last(This).ret
           /\ Len(data) > 0 => Result(This', call'.ret) = last(This)
           /\ Len(data) = 0 => currentRow' = Len(data)
      /\ call'.op = "last"
        => /\ call'.ret = absolute(This, -1).ret
           /\ Len(data) > 0 => Result(This', call'.ret) = absolute(This, -1)
           /\ Len(data) = 0 => currentRow' = currentRow ]_vars

C9_Witness ==
  /\ call.op = "absolute"
  /\ call.arg = Num(-1)
  /\ Len(data) = 0
  /\ call.ret = Bool(FALSE)
  /\ currentRow = 0

\* C10: previous() returns false and does not move when position <= 0;
\* otherwise it decrements the position by exactly one and returns true.
C10_Previous ==
  [][ call'.op = "previous"
        => IF currentRow <= 0
           THEN call'.ret = Bool(FALSE) /\ currentRow' = currentRow
           ELSE call'.ret = Bool(TRUE) /\ currentRow' = currentRow - 1 ]_vars

C10_Witness ==
  /\ call.op = "previous"
  /\ call.ret = Bool(FALSE)
  /\ currentRow = 0
  /\ Len(data) >= 1

\* the column i carries the name `label`, ignoring case
NameMatches(i, label) == toLowerCase(schema[i].name) = toLowerCase(label)

\* the accessor named op, called with `column`
Accessor(op, this, column) ==
  CASE op = "getString" -> getString(this, column)
    [] op = "getInt" -> getInt(this, column)
    [] op = "getFloat" -> getFloat(this, column)
    [] op = "getDouble" -> getDouble(this, column)
    [] op = "getBoolean" -> getBoolean(this, column)
    [] op = "getObject" -> getObject(this, column)

\* C11: first() and last() move to 0 and rowCount - 1 and return true when
\* rowCount > 0; on an empty grid they return false and leave the position
\* exactly as it was.
C11_FirstLast ==
  [][ /\ call'.op = "first"
        => IF Len(data) > 0
           THEN currentRow' = 0 /\ call'.ret = Bool(TRUE)
           ELSE currentRow' = currentRow /\ call'.ret = Bool(FALSE)
      /\ call'.op = "last"
        => IF Len(data) > 0
           THEN currentRow' = Len(data) - 1 /\ call'.ret = Bool(TRUE)
           ELSE currentRow' = currentRow /\ call'.ret = Bool(FALSE) ]_vars

C11_Witness ==
  /\ call.op = "first"
  /\ call.ret = Bool(FALSE)
  /\ Len(data) = 0
  /\ currentRow = -1

\* C12: on an empty grid isBeforeFirst, isAfterLast, isFirst and isLast are
\* all false and getRow() is 0 whatever the position; on a non-empty grid
\* getRow() is position + 1 on a valid row and 0 otherwise.
C12_PositionChecks ==
  /\ Len(data) = 0
       => /\ ~isBeforeFirst(This)
          /\ ~isAfterLast(This)
          /\ ~isFirst(This)
          /\ ~isLast(This)
          /\ getRow(This) = 0
  /\ Len(data) > 0
       => getRow(This) = IF OnRow(currentRow) THEN currentRow + 1 ELSE 0

C12_Witness ==
  /\ Len(data) = 0
  /\ call.op = "next"
  /\ currentRow = 0

\* C13: findColumn(label) returns the 1-based index of the first column whose
\* name equals label ignoring case, fails with the column-not-found error
\* carrying the label when no column matches, and never changes the position
\* or the wasNull flag.
C13_FindColumn ==
  [][ call'.op = "findColumn"
        => LET label == call'.arg.v
               matches == { i \in 1..Len(schema) : NameMatches(i, label) }
           IN  /\ currentRow' = currentRow
               /\ _wasNull' = _wasNull
               /\ IF matches = {}
                  THEN call'.ret = Throw("Column not found", Str(label))
                  ELSE /\ call'.ret.k = "num"
                       /\ call'.ret.v \in matches
                       /\ \A j \in matches : call'.ret.v <= j ]_vars

C13_Witness ==
  /\ call.op = "findColumn"
  /\ call.ret = Num(1)
  /\ Len(schema) = 2
  /\ NameMatches(1, call.arg.v)
  /\ NameMatches(2, call.arg.v)
  /\ schema[1].name # call.arg.v

\* C14: on a valid row, an accessor called with a column name that matches
\* the schema gives the same result and the same wasNull effect as the same
\* accessor called with the index findColumn(name).
C14_NameIsIndex ==
  [][ ( /\ call'.op \in Accessors
        /\ call'.arg.k = "str"
        /\ OnRow(currentRow)
        /\ ~IsThrow(findColumn(This, call'.arg.v)) )
        => Result(This', call'.ret)
             = Accessor(call'.op, This, findColumn(This, call'.arg.v)) ]_vars

C14_Witness ==
  /\ call.op = "getInt"
  /\ call.arg = Str(<<"i","D">>)
  /\ OnRow(currentRow)
  /\ call.ret = Num(2)

\* C15: on a valid row an accessor called with an integer index below 1 or
\* above the schema length fails with the invalid-column-index error and
\* leaves the position and the wasNull flag unchanged.
C15_InvalidColumnIndex ==
  [][ ( /\ call'.op \in Accessors
        /\ call'.arg.k = "num"
        /\ (call'.arg.v < 1 \/ call'.arg.v > Len(schema))
        /\ OnRow(currentRow) )
        => /\ call'.ret = Throw("Invalid column index", call'.arg)
           /\ currentRow' = currentRow
           /\ _wasNull' = _wasNull ]_vars

C15_Witness ==
  /\ call.op = "getInt"
  /\ call.ret = Throw("Invalid column index", Num(0))
  /\ Len(schema) = 2
  /\ OnRow(currentRow)
  /\ _wasNull

\* C16: when the current row holds fewer cells than the schema has columns,
\* an accessor for an index within the schema but beyond the row's length
\* fails with an error and never returns a value.
C16_ShortRowFails ==
  ( /\ call.op \in Accessors
    /\ ValidIndexArg(call)
    /\ OnRow(currentRow)
    /\ call.arg.v > Len(data[currentRow + 1]) )
    => IsThrow(call.ret)

\* C17: getObject on a text cell dispatches on the column's type tag by exact
\* match: Int32/Int64 give the integer parse, Float32/Float64 the
\* floating-point parse, Boolean gives (lower-cased text = "true"), every
\* other tag, other spellings of these included, the raw text; a null cell
\* gives null for every tag.
C17_GetObjectByTag ==
  ( /\ call.op = "getObject"
    /\ ValidIndexArg(call)
    /\ OnRow(currentRow)
    /\ call.arg.v <= Len(data[currentRow + 1]) )
    => LET cell == data[currentRow + 1][call.arg.v]
           tag == schema[call.arg.v].data_type
       IN  call.ret =
             IF cell.k = "null" THEN Null
             ELSE CASE tag \in {"Int32", "Int64"} -> parseInt(cell.v)
                    [] tag \in {"Float32", "Float64"} -> parseFloat(cell.v)
                    [] tag = "Boolean" -> Bool(toLowerCase(cell.v) = <<"t","r","u","e">>)
                    [] OTHER -> cell

C17_Witness ==
  /\ call.op = "getObject"
  /\ call.arg = Num(1)
  /\ OnRow(currentRow)
  /\ schema[1].data_type = "boolean"
  /\ call.ret = Str(<<"t","r","u","e">>)

\* the value getObject(i) returns on row r (1-based)
CellObject(r, i) == getObject([currentRow |-> r - 1, _wasNull |-> FALSE], Num(i)).ret

\* the names of the schema's columns
ColumnNames == { schema[i].name : i \in 1..Len(schema) }

\* column i is the last column of its name
LastOfName(i) == \A j \in (i + 1)..Len(schema) : schema[j].name # schema[i].name

C19_ToArrayRestoresPosition ==
  [][ call'.op = "toArray"
        => /\ currentRow' = currentRow
           /\ call'.ret = toArray(This').ret ]_vars

\* C20: obtaining an iterator resets the position to before-first; stepping it
\* to completion with no other call in between yields exactly rowCount
\* records, equal in order and content to toArray()'s output, and the position
\* is rowCount when it reports done.
C20_IterationIsToArray ==
  /\ call.op = "iterator" => currentRow = -1
  /\ (iterRun >= 1 /\ iterRun <= Len(data) /\ ~IsThrow(toArray(This).ret))
       => call.ret = [k |-> "iter", done |-> FALSE,
                      value |-> toArray(This).ret.v[iterRun]]
  /\ iterRun = Len(data) + 1
       => /\ call.ret.done
          /\ currentRow = Len(data)
          /\ ~IsThrow(toArray(This).ret)
          /\ Len(toArray(This).ret.v) = Len(data)

C20_Witness ==
  /\ call.op = "iterator.next"
  /\ iterRun = Len(data) + 1
  /\ Len(data) = 2
  /\ Len(schema) = 2
  /\ call.ret.done
  /\ currentRow = 2

\* C21: getColumnCount, getColumnName(i) and getColumnType(i) for i in
\* [1, columnCount] return the schema's values at every cursor position and on
\* an empty grid, and never change the position or the wasNull flag.
C21_Metadata ==
  [][ /\ call'.op \in {"getColumnCount", "getColumnName", "getColumnType"}
        => currentRow' = currentRow /\ _wasNull' = _wasNull
      /\ call'.op = "getColumnCount" => call'.ret = Num(Len(schema))
      /\ (call'.op = "getColumnName" /\ ValidIndexArg(call'))
        => call'.ret = Str(schema[call'.arg.v].name)
      /\ (call'.op = "getColumnType" /\ ValidIndexArg(call'))
        => call'.ret = Tag(schema[call'.arg.v].data_type) ]_vars

C21_Witness ==
  /\ call.op = "getColumnName"
  /\ call.arg = Num(2)
  /\ call.ret = Str(<<"o","k">>)
  /\ Len(data) = 0
  /\ currentRow = 0
  /\ entry.data.k = "rows"

\* the rows field and schema field the cursor is to wrap
ExpectedRows ==
  IF entry.result.k = "rows" THEN entry.result.v
  ELSE IF entry.data.k = "rows" THEN entry.data.v
  ELSE << >>

ExpectedSchema ==
  IF entry.schema.k = "fields" THEN entry.schema.v ELSE << >>

\* C22: the cursor's grid is the entry's primary rows field whenever that field
\* is present, even when it is an empty list; the fallback field is used only
\* when the primary field is absent; with both absent the grid is empty, and
\* an absent schema is treated as an empty schema.
C22_PrimaryBeforeFallback ==
  /\ data = ExpectedRows
  /\ schema = ExpectedSchema
  /\ call.op = "rowCount" => call.ret = Num(Len(ExpectedRows))
  /\ call.op = "getColumnCount" => call.ret = Num(Len(ExpectedSchema))
  /\ (call.op = "next" /\ nextRun = 1) => call.ret = Bool(Len(ExpectedRows) > 0)

C22_Witness ==
  /\ entry.result = Rows(<< >>)
  /\ entry.data.k = "rows"
  /\ Len(entry.data.v) = 2
  /\ call.op = "rowCount"
  /\ call.ret = Num(0)

\* C23: two cursors constructed over the same entry are independent: a call
\* on one leaves the other's position and wasNull flag unchanged, every call
\* on a cursor returns and assigns what it does for that cursor's own fields,
\* and no call changes the shared grid or schema.
C23_IndependentCursors ==
  [][ /\ data' = data
      /\ schema' = schema
      /\ entry' = entry
      /\ callOn' = 1
        => /\ other.currentRow' = other.currentRow
           /\ other._wasNull' = other._wasNull
           /\ call'.op \in OtherOps
                => Result(This', call'.ret) = Method(call'.op, This, call'.arg)
      /\ callOn' = 2
        => /\ This' = This
           /\ Result(OtherThis', call'.ret) = Method(call'.op, OtherThis, call'.arg) ]_vars

C23_Witness ==
  /\ callOn = 2
  /\ call.op = "getString"
  /\ call.ret = Throw("No current row", Undefined)
  /\ other.currentRow = -1
  /\ currentRow = 0
  /\ Len(data) = 2
  /\ _wasNull

\* the promise is resolved with a value that the parser emitted with an empty
\* stack
ResolvedWithRoot(d) ==
  /\ d.promise.k = "resolved"
  /\ \E i \in 1..Len(d.emitted) :
       d.emitted[i].stack = 0 /\ d.emitted[i].value = d.promise.v

\* C24: parseJsonStream is all-or-nothing: its promise resolves only on the
\* parser's end event, the resolved value is the value of an onValue event
\* with an empty stack, values emitted at a nesting depth above 0 never become
\* the result, and the promise never resolves before a root-level value has
\* been emitted.
C24_AllOrNothing ==
  decode.stream
    => /\ decode.promise.k = "resolved" => decode.ended /\ ResolvedWithRoot(decode)
       /\ decode.result # Undefined
            => \E i \in 1..Len(decode.emitted) :
                 decode.emitted[i].stack = 0 /\ decode.emitted[i].value = decode.result

\* C25: a decode run whose byte source has reported end-of-stream or an error
\* has exactly one outcome, resolved with a root value or rejected, and once
\* settled the outcome does not change whatever events or chunks follow.
C25_ExactlyOneOutcome ==
  [][ decode.stream
        => /\ decode.promise.k # "pending" => decode'.promise = decode.promise
           /\ decode'.pump \in {"ended", "failed"}
                => \/ decode'.promise.k = "rejected"
                   \/ ResolvedWithRoot(decode') ]_vars

C27_MalformedBodyFails ==
  (decode.stream /\ decode.pump = "ended")
    => IF IsThrow(JSONparse(decode.body))
       THEN decode.promise.k = "rejected"
       ELSE decode.promise = Resolved(JSONparse(decode.body))

\* the outcome of decoding a body delivered as one chunk
DecodeWhole(body) == tokenizer_end(tokenizer_write(NewParser, body)).promise

\* C28: decoding the same bytes delivered as one chunk or split at arbitrary
\* boundaries into many chunks gives the same outcome: equal root values, or
\* failure in both cases.
C28_ChunkingIrrelevant ==
  (decode.stream /\ decode.pump = "ended")
    => IF DecodeWhole(decode.body).k = "resolved"
       THEN decode.promise = DecodeWhole(decode.body)
       ELSE decode.promise.k = "rejected"

C28_Witness ==
  /\ decode.stream
  /\ decode.pump = "ended"
  /\ decode.chunks = Len(decode.body)
  /\ decode.promise = Resolved(Array(<< Num(11) >>))

\* the response has arrived with a status outside 200..299
NonOk(r) == r.response.k = "response" /\ r.response.status \notin 200..299

\* C29 as stated: for get, post and sendCommand a response with a non-OK
\* status causes rejection with DatalatheApiError carrying the status code and
\* the body text; the body is never fed to the decoder and parseResponse is
\* never invoked.
C29_NonOkIsApiError ==
  NonOk(request)
    => /\ ~request.fed
       /\ request.parsed = 0
       /\ request.pc = "settled"
            => request.outcome = Rejected(DatalatheApiError(request.response.status,
                                                            request.response.body.text))

\* C29 amended: a response with a non-OK status causes rejection: with
\* DatalatheApiError carrying the status code and the body text when the body
\* text is read, and with the error of reading it (a failed read, or the abort
\* at the timeout) otherwise; the body is never fed to the decoder and
\* parseResponse is never invoked.
C29_NonOkRejects ==
  NonOk(request)
    => /\ ~request.fed
       /\ request.parsed = 0
       /\ request.pc = "settled"
            => IF request.text # Undefined
               THEN request.outcome = Rejected(DatalatheApiError(request.response.status,
                                                                 request.text.v))
               ELSE request.outcome \in { Rejected(ReadError), Rejected(AbortError) }

C29_Witness ==
  /\ request.api = "sendCommand"
  /\ request.pc = "settled"
  /\ request.response.k = "response"
  /\ request.response.status = 404
  /\ request.outcome = Rejected(DatalatheApiError(404, "{result:{1:error}}"))
  /\ request.timer = "cleared"

\* generateReport has returned for a response decoded to an object
Reported(r) ==
  /\ r.api = "generateReport"
  /\ r.pc = "settled"
  /\ r.parsed = 1
  /\ r.response.body.decoded.v.k = "object"

\* the members of the decoded response's result, none when it is null
ResultMembers(r) ==
  IF Nullish(r.response.body.decoded.v.v.result) THEN << >>
  ELSE r.response.body.decoded.v.v.result.members

C36_ToArrayMatchesGetObject ==
  (call.op = "toArray" /\ call.ret.k = "array")
    => \A r \in 1..Len(data) : \A c \in ColumnNames :
         call.ret.v[r].v[c]
           = getObject([currentRow |-> r - 1, _wasNull |-> FALSE], Str(c)).ret

\* C34: wasNull() reflects only the caller's immediately preceding scalar
\* accessor call: navigation calls, findColumn, a failing accessor call,
\* toArray() and iteration all leave the wasNull flag exactly as the last
\* successful accessor call of the caller set it.
C34_WasNullOnlyByAccessors ==
  [][ (call'.op \notin Accessors \/ IsThrow(call'.ret)) => _wasNull' = _wasNull ]_vars

\* C33: navigation, toArray() and iteration share one position field:
\* obtaining an iterator resets the position to before-first at once, and each
\* step of an iterator, whatever call came before it, moves the shared
\* position on by one and yields the record of the row there (toArray()'s
\* record of that row), or reports done when no row is there; so a step after
\* a navigation call yields the row after the navigated position and a step
\* after a second iterator was obtained yields row 1.
C33_SharedPosition ==
  [][ /\ call'.op = "iterator" => currentRow' = -1
      /\ (call'.op = "iterator.next" /\ ~IsThrow(toArray(This).ret))
           => /\ currentRow' = currentRow + 1
              /\ IF currentRow + 1 < Len(data)
                 THEN call'.ret = [k |-> "iter", done |-> FALSE,
                                   value |-> toArray(This).ret.v[currentRow + 2]]
                 ELSE call'.ret.done ]_vars

\* a step made after another call moved the cursor to row 1 has yielded row 2
\* first
C33_Witness ==
  /\ call.op = "iterator.next"
  /\ iterRun = -1
  /\ nextRun = -1
  /\ call.ret.k = "iter"
  /\ ~call.ret.done
  /\ Len(data) = 2
  /\ Len(schema) = 2
  /\ currentRow = 1

\* C32: on every request path the timer armed before the fetch is not cleared
\* until the response body has been decoded or decoding has failed (so a body
\* stream that stalls after the headers is still aborted at the timeout), and
\* it is cleared exactly once on every exit path.
C32_TimerCoversDecode ==
  /\ request.pc \in {"fetch", "text", "decode"} => request.clears = 0
  /\ request.pc = "settled" => request.clears = 1

\* the reply is a response carrying a non-empty error
StageFailed(reply) ==
  reply.k = "resolved" /\ ~Nullish(reply.v) /\ truthy(reply.v.v.error)

\* the reply is a response carrying no error
Staged(reply) ==
  reply.k = "resolved" /\ ~Nullish(reply.v) /\ ~truthy(reply.v.v.error)

\* C31: createChips sends one request per source, strictly in input order,
\* each only after the previous response has been handled; if all succeed it
\* returns the chip ids in input order, as many as there are sources; at the
\* first response carrying a non-empty error it throws DatalatheStageError,
\* sends no further request and returns no ids.
C31_OneRequestPerSourceInOrder ==
  /\ chips.sent = SubSeq(chips.sources, 1, Len(chips.sent))
  /\ Len(chips.sent) = Len(chips.replies) + (IF chips.inFlight THEN 1 ELSE 0)
  /\ chips.inFlight => chips.outcome = Pending
  /\ (\A i \in 1..Len(chips.replies) : Staged(chips.replies[i]))
       => IF Len(chips.replies) = Len(chips.sources)
          THEN chips.outcome
                 = Resolved(Array([i \in 1..Len(chips.sources) |-> chips.replies[i].v.v.chip_id]))
          ELSE chips.inFlight
  /\ \A i \in 1..Len(chips.replies) :
       StageFailed(chips.replies[i])
         => /\ Len(chips.replies) = i
            /\ Len(chips.sent) = i
            /\ ~chips.inFlight
            /\ chips.outcome.k = "rejected"
            /\ chips.outcome.v.msg = "DatalatheStageError"

\* the second of three sources failed to stage after the first was staged:
\* StageError, two requests sent, no ids returned
C31_Witness ==
  /\ Len(chips.sources) = 3
  /\ Len(chips.sent) = 2
  /\ Len(chips.chipIds) = 1
  /\ Len(chips.replies) = 2
  /\ StageFailed(chips.replies[2])
  /\ chips.outcome.k = "rejected"
  /\ chips.outcome.v.msg = "DatalatheStageError"
====
